---------------------------- MODULE Spec2Model ----------------------------
(***************************************************************************)
(* Model of koishi-plugin-giftcard (src/src/index.ts).                     *)
(*                                                                         *)
(* The plugin keeps two tables in the koishi database:                     *)
(*   giftcard_cards   - the voucher inventory (unique card_code)           *)
(*   giftcard_invites - the reward ledger (primary key id only)            *)
(* and reacts to 'guild-member-added' events and to the admin commands     *)
(* .add and .addre.                                                        *)
(*                                                                         *)
(* Every handler is an async function.  JavaScript runs the code between   *)
(* two awaits without interruption, so one action of the model is one      *)
(* awaited database / bot call together with the synchronous code that     *)
(* follows it up to the next await.  Several handlers may be in flight at  *)
(* once and interleave at their awaits.                                    *)
(*                                                                         *)
(* Every database call may reject (store failure); every bot call may      *)
(* reject (delivery failure).  A write of a negative left is modelled as   *)
(* stored or rejected: the column is declared unsigned, and whether a      *)
(* store enforces that differs between database drivers.                   *)
(*                                                                         *)
(* Abstractions: Date values are the single token Now; an upsert that      *)
(* names no key inserts the rows with fresh ids (table order = id order);  *)
(* the welcome message (lines 122-140) touches no table and is folded      *)
(* into the first step; an admin command is one step (see AddCards).       *)
(***************************************************************************)
EXTENDS Integers, Sequences, FiniteSets, TLC

\* ------------------------------------------------------------------ bounds
\* number of join events delivered
NumEvents == 2
\* number of admin commands issued
NumAdminOps == 2
\* largest <frequency> an admin gives to .addre
MaxFrequency == 2
\* largest configured cardsPerInviter
MaxCardsPerInviter == 2
\* largest number of words in the text of one admin command
MaxBatch == 2

\* ------------------------------------------------------------- value sets
NULL == "null"
Now == "now"
Events == 1..NumEvents
Codes == {"A", "B"}
CodeOrder == <<"A", "B">>
\* the join events delivered: session.guildId, session.userId (the new
\* member), session.operatorId (the inviter, or null).  Three referrals in
\* the enrolled group (two of them of the same new member by different
\* inviters), a join without inviter, a self-join and a join in a group that
\* is not enrolled.
Sessions ==
  { [guildId |-> "g1", userId |-> "u1", operatorId |-> "u3"],
    [guildId |-> "g1", userId |-> "u2", operatorId |-> "u1"],
    [guildId |-> "g1", userId |-> "u2", operatorId |-> "u3"],
    [guildId |-> "g1", userId |-> "u1", operatorId |-> NULL],
    [guildId |-> "g1", userId |-> "u1", operatorId |-> "u1"],
    [guildId |-> "g2", userId |-> "u1", operatorId |-> "u3"] }
Commanders == {"a1", "u1"}

\* config.targetGroups and config.adminIds (fixed for the life of the plugin)
targetGroups == {"g1"}
adminIds == <<"a1", "a2">>

VARIABLES
  config,          \* [cardsPerInviter, rewardInvitedUser], set at construction
  cards,           \* table giftcard_cards, in id order
  invites,         \* table giftcard_invites, in id order
  pc,              \* per join event: the await it is suspended at
  session,         \* per join event: [guildId, userId, operatorId]
  availableCards,  \* per join event: the result of its read of the pool
  idx,             \* per join event: position in the loop it is in
  outcome,         \* per join event: how the handler ended
  sent,            \* private messages handed to bot.sendPrivateMessage
  undelivered,     \* those of them whose call rejected (delivery failure)
  issued,          \* number of admin commands issued so far
  \* history variables (not program state)
  writes,          \* per join event: its successful writes to giftcard_cards
  ledgerWrites,    \* per join event: rows it inserted into giftcard_invites
  interfered,      \* per join event: some other handler wrote a table since it started
  priorRewarded,   \* per join event: events that had ended rewarded when it started
  poolRead,        \* per join event: whether its read of the pool succeeded
  created          \* per card_code: the value of left it was inserted with

vars == <<config, cards, invites, pc, session, availableCards, idx, outcome,
          sent, undelivered, issued, writes, ledgerWrites, interfered, priorRewarded,
          poolRead, created>>

evVars == <<pc, session, availableCards, idx, outcome>>
histVars == <<writes, ledgerWrites, interfered, priorRewarded, poolRead, created>>

\* ----------------------------------------------------------------- helpers
Min(a, b) == IF a < b THEN a ELSE b
Max(a, b) == IF a > b THEN a ELSE b

RECURSIVE SumSeq(_)
SumSeq(s) == IF s = <<>> THEN 0 ELSE Head(s) + SumSeq(Tail(s))

\* Array.prototype.slice(0, n)
Slice(s, n) == SubSeq(s, 1, Min(Max(n, 0), Len(s)))

NoSession == [guildId |-> NULL, userId |-> NULL, operatorId |-> NULL]


\* ------------------------------------------------------------- the config
\* line 164: Math.max(0, config.cardsPerInviter ?? 1)
cardsNeededForInviter == Max(0, config.cardsPerInviter)
\* line 165
cardsNeededForInvited == IF config.rewardInvitedUser THEN 1 ELSE 0
\* line 166
totalCardsNeeded == cardsNeededForInviter + cardsNeededForInvited

\* line 115: the event is dropped when its group is not enrolled
notInTargetGroups(s) == s.guildId = NULL \/ s.guildId \notin targetGroups

\* line 143 with the second operand forgotten
isDirectJoinNoInviterOnly(s) == s.operatorId = NULL

\* line 143: !inviterId || inviterId === invitedId
isDirectJoin(s) == s.operatorId = NULL \/ s.operatorId = s.userId

\* lines 108-110
isAdmin(userId) == \E i \in DOMAIN adminIds : adminIds[i] = userId

\* ------------------------------------------------------ database queries
\* lines 149-152 with the query on the wrong column (inviter_id)
GetInvitesByInviter(invitedId, guildId) ==
  SelectSeq(invites, LAMBDA r : r.inviter_id = invitedId /\ r.group_id = guildId)

\* ctx.database.get('giftcard_invites', {invited_id, group_id}), lines 149-152
GetInvites(invitedId, guildId) ==
  SelectSeq(invites, LAMBDA r : r.invited_id = invitedId /\ r.group_id = guildId)

\* ctx.database.get('giftcard_cards', {assigned_to_user_id: null}), lines 184-186
GetUnassignedCards ==
  SelectSeq(cards, LAMBDA c : c.assigned_to_user_id = NULL)

\* ctx.database.get('giftcard_cards', {assigned_to_user_id: session.userId}),
\* the query of giftcard.me, lines 459-461
GetCardsOf(userId) ==
  SelectSeq(cards, LAMBDA c : c.assigned_to_user_id = userId)

\* ctx.database.set('giftcard_cards', {card_code}, {left}), lines 254 and 263
SetLeft(code, v) ==
  [i \in DOMAIN cards |->
     IF cards[i].card_code = code THEN [cards[i] EXCEPT !.left = v] ELSE cards[i]]

\* lines 256 and 265 with assigned_timestamp left out of the update
SetOwnerNoTimestamp(code, userId) ==
  [i \in DOMAIN cards |->
     IF cards[i].card_code = code
     THEN [cards[i] EXCEPT !.assigned_to_user_id = userId]
     ELSE cards[i]]

\* ctx.database.set('giftcard_cards', {card_code},
\*                  {assigned_to_user_id, assigned_timestamp}), lines 256 and 265
SetOwner(code, userId) ==
  [i \in DOMAIN cards |->
     IF cards[i].card_code = code
     THEN [cards[i] EXCEPT !.assigned_to_user_id = userId,
                           !.assigned_timestamp = Now]
     ELSE cards[i]]

\* lines 253-257 without the isreusable branch: every selected card gets an owner
ApplyCardAlwaysOwner(card, userId) == SetOwner(card.card_code, userId)

\* the write the handler issues for one selected card: a reusable card gets
\* left := (the left it READ) - 1, another card gets its owner (lines 253-257,
\* 262-266)
ApplyCard(card, userId) ==
  IF card.isreusable THEN SetLeft(card.card_code, card.left - 1)
                     ELSE SetOwner(card.card_code, userId)

\* ctx.database.upsert('giftcard_invites', [{...}]), lines 170-177
InsertInvite(inviterId, invitedId, guildId) ==
  Append(invites, [id |-> Len(invites) + 1,
                   inviter_id |-> inviterId,
                   invited_id |-> invitedId,
                   group_id |-> guildId,
                   timestamp |-> Now,
                   inviter_card_id |-> NULL,
                   invited_card_id |-> NULL])

\* --------------------------------------------------------- the allocation
CardUnits(card) == IF card.isreusable THEN card.left ELSE 1

\* line 188: availableCards.reduce((acc, card) => acc + (card.isreusable ? card.left : 1), 0)
totalAvailableCards(av) == SumSeq([i \in DOMAIN av |-> CardUnits(av[i])])

\* total capacity of a pool as the specification defines it: the remaining
\* uses of its multi-use vouchers plus the number of its unassigned
\* single-use vouchers (used by the properties only)
Capacity(pool) ==
  SumSeq([i \in DOMAIN pool |->
            IF pool[i].isreusable THEN pool[i].left
            ELSE IF pool[i].assigned_to_user_id = NULL THEN 1 ELSE 0])

\* line 190 with the comparison off by one
InsufficientOffByOne(av) == totalAvailableCards(av) < totalCardsNeeded - 1

\* line 190
Insufficient(av) == totalAvailableCards(av) < totalCardsNeeded

\* line 245
reusableCards(av) == SelectSeq(av, LAMBDA c : c.isreusable)
\* line 246
nonReusableCards(av) == SelectSeq(av, LAMBDA c : ~c.isreusable)
\* line 247
reusableCardsNeeded(av) == Min(Len(reusableCards(av)), cardsNeededForInviter)
\* line 248
nonReusableCardsNeeded(av) == cardsNeededForInviter - reusableCardsNeeded(av)
\* lines 249-250
cardsForInviter(av) ==
  Slice(reusableCards(av), reusableCardsNeeded(av))
    \o Slice(nonReusableCards(av), nonReusableCardsNeeded(av))

\* line 261: availableCards[cardsNeededForInviter] (0-based); undefined past the end
InvitedIndex == cardsNeededForInviter + 1
InvitedCardDefined(av) == InvitedIndex <= Len(av)

\* line 204: cardForInvited is declared null and never assigned
cardForInvited == NULL

\* Where the handler suspends next, <<pc, outcome>>, after the card writes
\* (lines 270-292): the inviter is messaged when cardsNeededForInviter > 0,
\* the invited user only when cardForInvited is set.
AfterWrites ==
  IF cardsNeededForInviter > 0 THEN <<"notifyInviter", "none">>
  ELSE IF cardForInvited # NULL THEN <<"notifyInvited", "none">>
  ELSE <<"done", "rewarded">>

\* lines 260-262 with a handler that, instead of failing on a missing card,
\* waits for the inventory to be replenished
AfterInviterAwaitsCard(av) ==
  IF cardsNeededForInvited > 0
  THEN IF InvitedCardDefined(av) THEN <<"setInvited", "none">>
                                 ELSE <<"awaitCard", "none">>
  ELSE AfterWrites

\* after the inviter's loop (lines 260-262): reading card.isreusable of an
\* undefined card throws a TypeError, caught at line 294
AfterInviter(av) ==
  IF cardsNeededForInvited > 0
  THEN IF InvitedCardDefined(av) THEN <<"setInvited", "none">>
                                 ELSE <<"done", "threw">>
  ELSE AfterWrites

\* after the read of the pool (lines 188-252)
AfterRead(av) ==
  IF Insufficient(av)
  THEN IF Len(adminIds) > 0 THEN <<"alert", "insufficient">>
                            ELSE <<"done", "insufficient">>
  ELSE IF cardsNeededForInviter > 0 /\ Len(cardsForInviter(av)) > 0
       THEN <<"setInviter", "none">>
       ELSE AfterInviter(av)

\* lines 192-198 with the try/catch around the loop instead of inside it: a
\* rejected alert ends the loop
AfterAlertNoCatch(i, delivered) ==
  IF delivered /\ i < Len(adminIds) THEN <<"alert", "insufficient">>
                                    ELSE <<"done", "insufficient">>

\* after the alert to the i-th admin (lines 192-199): the rejection of
\* sendPrivateMessage is caught inside the loop, which goes on to the next
\* admin either way
AfterAlert(i, delivered) ==
  IF i < Len(adminIds) THEN <<"alert", "insufficient">>
                       ELSE <<"done", "insufficient">>

\* after the message to the inviter (lines 274-292): its rejection is caught
\* at line 281, and the message to the invited user depends on
\* cardForInvited only
AfterNotifyInviter(delivered) ==
  IF cardForInvited # NULL THEN <<"notifyInvited", "none">>
                           ELSE <<"done", "rewarded">>

\* history: every other handler in flight has seen the table change under it
Interfere(e) ==
  [f \in Events |-> IF f # e /\ pc[f] # "idle" THEN TRUE ELSE interfered[f]]


\* -------------------------------------------------------------------- Init
Init ==
  /\ config \in [cardsPerInviter : 0..MaxCardsPerInviter,
                 rewardInvitedUser : BOOLEAN]
  /\ cards = <<>>
  /\ invites = <<>>
  /\ pc = [e \in Events |-> "idle"]
  /\ session = [e \in Events |-> NoSession]
  /\ availableCards = [e \in Events |-> <<>>]
  /\ idx = [e \in Events |-> 0]
  /\ outcome = [e \in Events |-> "none"]
  /\ sent = {}
  /\ undelivered = {}
  /\ issued = 0
  /\ writes = [e \in Events |-> <<>>]
  /\ ledgerWrites = [e \in Events |-> 0]
  /\ interfered = [e \in Events |-> FALSE]
  /\ priorRewarded = [e \in Events |-> {}]
  /\ poolRead = [e \in Events |-> FALSE]
  /\ created = [c \in Codes |-> NULL]

\* ------------------------------------------- the guild-member-added handler
\* the handler suspends at po[1]; po[2] is how it ended, once it has; av is
\* what it read from the pool and i its position in the loop it is in
Goto(e, po, av, i) ==
  /\ pc' = [pc EXCEPT ![e] = po[1]]
  /\ outcome' = [outcome EXCEPT ![e] = po[2]]
  /\ availableCards' = [availableCards EXCEPT ![e] = av]
  /\ idx' = [idx EXCEPT ![e] = IF po[1] \in {"alert", "setInviter"} THEN i ELSE 0]

\* lines 113-147: the event arrives; events are numbered in arrival order
Receive(e) ==
  /\ pc[e] = "idle"
  /\ IF e = 1 THEN TRUE ELSE pc[e - 1] # "idle"
  /\ \E s \in Sessions :
       /\ session' = [session EXCEPT ![e] = s]
       /\ IF notInTargetGroups(s)
          THEN Goto(e, <<"done", "not-enrolled">>, <<>>, 0)
          ELSE IF isDirectJoin(s)
               THEN Goto(e, <<"done", "direct-join">>, <<>>, 0)
               ELSE Goto(e, <<"getInvites", "none">>, <<>>, 0)
  /\ priorRewarded' = [priorRewarded EXCEPT ![e] =
        {f \in Events : pc[f] = "done" /\ outcome[f] = "rewarded"}]
  /\ UNCHANGED <<config, cards, invites, sent, undelivered, issued, writes,
                 ledgerWrites, interfered, poolRead, created>>

\* lines 148-179: the read of the ledger and what follows it
GetPreviousJoins(e) ==
  /\ pc[e] = "getInvites"
  /\ \/ Goto(e, <<"done", "query-failed">>, <<>>, 0)
     \/ IF Len(GetInvites(session[e].userId, session[e].guildId)) > 0
        THEN Goto(e, <<"done", "already-rewarded">>, <<>>, 0)
        ELSE IF totalCardsNeeded = 0
             THEN Goto(e, <<"upsertInvite", "none">>, <<>>, 0)
             ELSE Goto(e, <<"getCards", "none">>, <<>>, 0)
  /\ UNCHANGED <<config, cards, invites, session, sent, undelivered, issued, histVars>>

\* lines 170-178: the ledger row of a join that needs no card; a rejection
\* here is not caught by the handler
UpsertInvite(e) ==
  /\ pc[e] = "upsertInvite"
  /\ \/ /\ invites' = InsertInvite(session[e].operatorId, session[e].userId,
                                   session[e].guildId)
        /\ ledgerWrites' = [ledgerWrites EXCEPT ![e] = @ + 1]
        /\ interfered' = Interfere(e)
        /\ Goto(e, <<"done", "no-reward-needed">>, <<>>, 0)
     \/ /\ Goto(e, <<"done", "failed">>, <<>>, 0)
        /\ UNCHANGED <<invites, ledgerWrites, interfered>>
  /\ UNCHANGED <<config, cards, session, sent, undelivered, issued, writes,
                 priorRewarded, poolRead, created>>

\* lines 184-252: the read of the pool, the capacity check and the selection
GetAvailableCards(e) ==
  /\ pc[e] = "getCards"
  /\ \/ /\ Goto(e, AfterRead(GetUnassignedCards), GetUnassignedCards, 1)
        /\ poolRead' = [poolRead EXCEPT ![e] = TRUE]
     \/ /\ Goto(e, <<"done", "failed">>, <<>>, 0)
        /\ UNCHANGED poolRead
  /\ UNCHANGED <<config, cards, invites, session, sent, undelivered, issued, writes,
                 ledgerWrites, interfered, priorRewarded, created>>

\* lines 192-199: one warning per admin, each in its own try/catch
AlertAdmin(e) ==
  /\ pc[e] = "alert"
  /\ sent' = sent \cup {[ev |-> e, to |-> adminIds[idx[e]], role |-> "admin",
                          codes |-> <<>>]}
  /\ \E delivered \in BOOLEAN :
       /\ undelivered' = IF delivered THEN undelivered
                         ELSE undelivered \cup {<<e, adminIds[idx[e]]>>}
       /\ Goto(e, AfterAlert(idx[e], delivered), availableCards[e], idx[e] + 1)
  /\ UNCHANGED <<config, cards, invites, session, issued, histVars>>

\* lines 252-258: one write of the inviter's loop
SetInviterCard(e) ==
  /\ pc[e] = "setInviter"
  /\ LET card == cardsForInviter(availableCards[e])[idx[e]] IN
     \/ /\ cards' = ApplyCard(card, session[e].operatorId)
        /\ writes' = [writes EXCEPT ![e] =
                        Append(@, [code |-> card.card_code, to |-> "inviter",
                                   reusable |-> card.isreusable])]
        /\ interfered' = Interfere(e)
        /\ IF idx[e] < Len(cardsForInviter(availableCards[e]))
           THEN Goto(e, <<"setInviter", "none">>, availableCards[e], idx[e] + 1)
           ELSE Goto(e, AfterInviter(availableCards[e]), availableCards[e], 0)
     \/ /\ Goto(e, <<"done", "failed">>, availableCards[e], 0)
        /\ UNCHANGED <<cards, writes, interfered>>
  /\ UNCHANGED <<config, invites, session, sent, undelivered, issued, ledgerWrites,
                 priorRewarded, poolRead, created>>

\* lines 260-267: the write for the invited user
SetInvitedCard(e) ==
  /\ pc[e] = "setInvited"
  /\ LET card == availableCards[e][InvitedIndex] IN
     \/ /\ cards' = ApplyCard(card, session[e].userId)
        /\ writes' = [writes EXCEPT ![e] =
                        Append(@, [code |-> card.card_code, to |-> "invited",
                                   reusable |-> card.isreusable])]
        /\ interfered' = Interfere(e)
        /\ Goto(e, AfterWrites, availableCards[e], 0)
     \/ /\ Goto(e, <<"done", "failed">>, availableCards[e], 0)
        /\ UNCHANGED <<cards, writes, interfered>>
  /\ UNCHANGED <<config, invites, session, sent, undelivered, issued, ledgerWrites,
                 priorRewarded, poolRead, created>>

\* lines 274-292: the private message to the inviter, in its own try/catch;
\* the message to the invited user is guarded by cardForInvited
NotifyInviter(e) ==
  /\ pc[e] = "notifyInviter"
  /\ sent' = sent \cup
       {[ev |-> e, to |-> session[e].operatorId, role |-> "inviter",
         codes |-> [i \in DOMAIN cardsForInviter(availableCards[e]) |->
                      cardsForInviter(availableCards[e])[i].card_code]]}
  /\ \E delivered \in BOOLEAN :
       /\ undelivered' = IF delivered THEN undelivered
                         ELSE undelivered \cup {<<e, session[e].operatorId>>}
       /\ Goto(e, AfterNotifyInviter(delivered), availableCards[e], 0)
  /\ UNCHANGED <<config, cards, invites, session, issued, histVars>>

\* --------------------------------------------------- the admin commands
\* the elements of a list
Range(s) == {s[i] : i \in DOMAIN s}

\* the codes of a set in CodeOrder
InOrder(codes) == SelectSeq(CodeOrder, LAMBDA c : c \in codes)

\* lines 312 and 541 without the Set: the words as they were typed
inputCardCodesNoSet(words) == words

\* [...new Set(cardsText.trim().split(/\s+/).filter(...))], lines 312 and 541:
\* the distinct words in the order of their first occurrence
RECURSIVE inputCardCodes(_)
inputCardCodes(words) ==
  IF words = <<>> THEN <<>>
  ELSE LET front == inputCardCodes(SubSeq(words, 1, Len(words) - 1))
           last == words[Len(words)]
       IN  IF last \in Range(front) THEN front ELSE Append(front, last)

\* existingCodeSet, lines 324-328 and 553-557
ExistingCodes(codes) ==
  {c \in codes : \E i \in DOMAIN cards : cards[i].card_code = c}

\* codesToAttemptUpsert, lines 330 and 559
codesToAttemptUpsert(codes) ==
  SelectSeq(codes, LAMBDA c : c \notin ExistingCodes(Range(codes)))

\* The texts an admin types, as lists of at most MaxBatch words.  Codes are
\* opaque strings: the codes of a text are first typed in CodeOrder, ...
Texts ==
  {w \in UNION {[1..n -> Codes] : n \in 1..MaxBatch} :
     \A j \in DOMAIN w : \A k \in DOMAIN CodeOrder :
       (CodeOrder[k] \in Range(w) /\ \E m \in DOMAIN CodeOrder :
                                       m > k /\ CodeOrder[m] = w[j])
         => \E i \in 1..(j - 1) : w[i] = CodeOrder[k]}

\* ... and a text names codes that exist and, of the codes that do not, the
\* first ones in CodeOrder
Batches ==
  {w \in Texts :
     \A i \in 2..Len(CodeOrder) :
       CodeOrder[i] \in Range(w) =>
         (CodeOrder[i - 1] \in Range(w)
            \/ ExistingCodes({CodeOrder[i - 1]}) # {})}

\* newCardEntriesForUpsert, lines 338-345 (.add: no left given, the column's
\* default 0) and 567-575 (.addre: left = parseInt(frequency))
NewCardEntries(codes, adminId, isreusable, frequency) ==
  [i \in DOMAIN codes |->
     [id |-> Len(cards) + i,
      card_code |-> codes[i],
      assigned_to_user_id |-> NULL,
      assigned_timestamp |-> NULL,
      added_by_admin_id |-> adminId,
      add_timestamp |-> Now,
      left |-> IF isreusable THEN frequency ELSE 0,
      isreusable |-> isreusable]]

\* lines 304-349 and 533-579: one admin command.  A user who is no admin is
\* turned away (lines 307, 536) before the text is looked at; the read of
\* the existing codes or the upsert may reject, and the command then inserts
\* nothing, as it does when every code exists; otherwise the codes that do
\* not exist are inserted.  The upsert stores the rows it is handed (the
\* unique index on card_code is not relied on, so a row the command should
\* have filtered out shows as a second record of its code).  No join event
\* creates a card or changes a card_code, so for the join handlers the
\* command's read and its upsert can be taken in one step; two commands are
\* not interleaved with each other here.
AddCards(userId, isreusable, frequency) ==
  /\ issued < NumAdminOps
  /\ issued' = issued + 1
  /\ \/ /\ isAdmin(userId)
        /\ \E cardsText \in Batches :
             LET codes == codesToAttemptUpsert(inputCardCodes(cardsText)) IN
             /\ Len(codes) > 0
             /\ cards' = cards \o NewCardEntries(codes, userId, isreusable,
                                                 frequency)
             /\ created' = [c \in Codes |->
                              IF c \in Range(codes)
                              THEN [left |-> IF isreusable THEN frequency ELSE 0]
                              ELSE created[c]]
             /\ interfered' = [f \in Events |-> pc[f] # "idle"]
     \/ UNCHANGED <<cards, created, interfered>>
  /\ UNCHANGED <<config, invites, evVars, sent, undelivered, writes,
                 ledgerWrites, priorRewarded, poolRead>>

\* giftcard.add <cards:text>, lines 302-379
GiftcardAdd ==
  \E userId \in Commanders : AddCards(userId, FALSE, 0)

\* giftcard.addre <code> <frequency>, lines 532-604
GiftcardAddre ==
  \E userId \in Commanders, frequency \in 1..MaxFrequency :
    AddCards(userId, TRUE, frequency)

\* -------------------------------------------------------------------- Next
Next ==
  \/ \E e \in Events :
       \/ Receive(e)
       \/ GetPreviousJoins(e)
       \/ UpsertInvite(e)
       \/ GetAvailableCards(e)
       \/ AlertAdmin(e)
       \/ SetInviterCard(e)
       \/ SetInvitedCard(e)
       \/ NotifyInviter(e)
  \/ GiftcardAdd
  \/ GiftcardAddre

Spec == Init /\ [][Next]_vars

\* one step of the handler of an event that has arrived: the awaited call
\* it is suspended at completes or rejects
HandlerStep(e) ==
  \/ GetPreviousJoins(e)
  \/ UpsertInvite(e)
  \/ GetAvailableCards(e)
  \/ AlertAdmin(e)
  \/ SetInviterCard(e)
  \/ SetInvitedCard(e)
  \/ NotifyInviter(e)

\* the states in which all admin commands but one have been issued and have
\* inserted nothing (turned away, or rejected by the store), before any
\* event has arrived: states Spec reaches by NumAdminOps - 1 such commands
FairInit ==
  /\ config \in [cardsPerInviter : 0..MaxCardsPerInviter,
                 rewardInvitedUser : BOOLEAN]
  /\ cards = <<>>
  /\ invites = <<>>
  /\ pc = [e \in Events |-> "idle"]
  /\ session = [e \in Events |-> NoSession]
  /\ availableCards = [e \in Events |-> <<>>]
  /\ idx = [e \in Events |-> 0]
  /\ outcome = [e \in Events |-> "none"]
  /\ sent = {}
  /\ undelivered = {}
  /\ issued = NumAdminOps - 1
  /\ writes = [e \in Events |-> <<>>]
  /\ ledgerWrites = [e \in Events |-> 0]
  /\ interfered = [e \in Events |-> FALSE]
  /\ priorRewarded = [e \in Events |-> {}]
  /\ poolRead = [e \in Events |-> FALSE]
  /\ created = [c \in Codes |-> NULL]

\* every awaited database or bot call settles (resolves or rejects), and the
\* event loop then resumes the handler that awaits it: weak fairness of
\* each handler's steps.  Nothing is assumed about when events arrive or
\* when admins issue commands.
FairSpec == FairInit /\ [][Next]_vars /\ \A e \in Events : WF_vars(HandlerStep(e))


\* ============================================================ properties
Started(e) == pc[e] # "idle"
Done(e) == pc[e] = "done"

\* the event names a valid referrer in an enrolled group
Referral(e) ==
  /\ Started(e)
  /\ session[e].guildId \in targetGroups
  /\ session[e].operatorId # NULL
  /\ session[e].operatorId # session[e].userId

\* two events are deliveries of the same (newMemberId, groupId)
SameJoin(e, f) ==
  /\ session[e].userId = session[f].userId
  /\ session[e].guildId = session[f].guildId

\* the ledger rows of the event's (newMemberId, groupId)
LedgerRows(e) == GetInvites(session[e].userId, session[e].guildId)

\* the units the event has handed to one party
Granted(e, party) == SelectSeq(writes[e], LAMBDA w : w.to = party)

\* the record of a card_code in the table
CardOf(code) == cards[CHOOSE i \in DOMAIN cards : cards[i].card_code = code]

\* C1: of the join events that carry the same (newMemberId, groupId) with a
\* valid referrer in an enrolled group, at most one mutates vouchers, and
\* the one that does grants at most requiredForReferrer units to the
\* referrer and at most one to the new member.
C1_AtMostOneRewardPerJoin ==
  \A e, f \in Events :
    (e # f /\ Referral(e) /\ Referral(f) /\ SameJoin(e, f))
      => /\ writes[e] = <<>> \/ writes[f] = <<>>
         /\ Len(Granted(e, "inviter")) <= cardsNeededForInviter
         /\ Len(Granted(e, "invited")) <= 1

\* C2: the ledger holds at most one entry per (newMemberId, groupId).
C2_OneLedgerEntryPerJoin ==
  \A i, j \in DOMAIN invites :
    (invites[i].invited_id = invites[j].invited_id
       /\ invites[i].group_id = invites[j].group_id) => i = j

\* C3: a join event that arrives after an event of the same
\* (newMemberId, groupId) has ended rewarded is turned away by the ledger
\* check (already-rewarded; query-failed if the read of the ledger rejects)
\* and writes neither a voucher nor the ledger.
C3_ReplayIsRejected ==
  \A e \in Events : \A f \in priorRewarded[e] :
    (Referral(e) /\ SameJoin(e, f))
      => /\ pc[e] \in {"getInvites", "done"}
         /\ Done(e) => outcome[e] \in {"already-rewarded", "query-failed"}
         /\ writes[e] = <<>>
         /\ ledgerWrites[e] = 0

\* C4: the left of every multi-use voucher is at least 0 and at most the
\* value it was created with.
C4_LeftWithinBounds ==
  \A i \in DOMAIN cards :
    cards[i].isreusable
      => /\ cards[i].left >= 0
         /\ cards[i].left <= created[cards[i].card_code].left

\* C5: once a single-use voucher has an owner, no step changes that owner.
C5_OwnerNeverChanges ==
  [][\A i \in DOMAIN cards :
       (~cards[i].isreusable /\ cards[i].assigned_to_user_id # NULL)
         => cards'[i].assigned_to_user_id = cards[i].assigned_to_user_id]_vars

\* C6: an event that read a pool whose total capacity is smaller than
\* requiredForReferrer + requiredForNewMember writes no voucher and no
\* ledger entry, and ends as insufficient inventory.
C6_InsufficientMeansNoMutation ==
  \A e \in Events :
    (poolRead[e] /\ Capacity(availableCards[e]) < totalCardsNeeded)
      => /\ writes[e] = <<>>
         /\ ledgerWrites[e] = 0
         /\ pc[e] \in {"alert", "done"}
         /\ outcome[e] = "insufficient"

\* witness of C6: an event has ended after reading a pool that holds cards
\* but not enough capacity
C6_Witness ==
  \E e \in Events :
    /\ Done(e)
    /\ poolRead[e]
    /\ availableCards[e] # <<>>
    /\ Capacity(availableCards[e]) < totalCardsNeeded
    /\ cards # <<>>

\* C7: the voucher writes of one event are atomic: in every state (each is
\* observable by the other handlers) an event has applied all of its
\* requiredForReferrer + requiredForNewMember voucher writes or none, and an
\* event that ended by a store failure or an exception has applied none.
C7_VoucherWritesAllOrNothing ==
  \A e \in Events :
    /\ Len(writes[e]) \in {0, totalCardsNeeded}
    /\ (Done(e) /\ outcome[e] \in {"failed", "threw"}) => writes[e] = <<>>

\* C8: an event that has finished and consumed a voucher unit has a ledger
\* entry for its (newMemberId, groupId).
C8_ConsumedImpliesLedgerEntry ==
  \A e \in Events :
    (Done(e) /\ writes[e] # <<>>) => Len(LedgerRows(e)) > 0

\* C9: an eligible event that read a pool with capacity >=
\* requiredForReferrer + requiredForNewMember, met no store failure and was
\* not interfered with, ends having granted exactly requiredForReferrer
\* units to the referrer and requiredForNewMember units to the new member,
\* and the capacity of the pool has dropped by exactly their sum.
C9_ExactGrant ==
  \A e \in Events :
    (/\ Done(e)
     /\ poolRead[e]
     /\ Capacity(availableCards[e]) >= totalCardsNeeded
     /\ outcome[e] # "failed"
     /\ ~interfered[e])
      => /\ Len(Granted(e, "inviter")) = cardsNeededForInviter
         /\ Len(Granted(e, "invited")) = cardsNeededForInvited
         /\ Capacity(cards) = Capacity(availableCards[e]) - totalCardsNeeded

\* C10: with requirement referrer = 2, newMember = 1 and an inventory of
\* exactly one multi-use voucher with left = 2 and one unassigned single-use
\* voucher, an eligible event that meets no store failure and no
\* interference ends with left = 0, the single-use voucher owned by the new
\* member, and one ledger entry for the join with both references set.
C10_Scenario ==
  \A e \in Events : \A m, s1 \in Codes :
    (/\ Done(e)
     /\ poolRead[e]
     /\ outcome[e] # "failed"
     /\ ~interfered[e]
     /\ config = [cardsPerInviter |-> 2, rewardInvitedUser |-> TRUE]
     /\ Len(cards) = 2
     /\ Len(availableCards[e]) = 2
     /\ \E i \in 1..2 : /\ availableCards[e][i].card_code = m
                        /\ availableCards[e][i].isreusable
                        /\ availableCards[e][i].left = 2
     /\ \E i \in 1..2 : /\ availableCards[e][i].card_code = s1
                        /\ ~availableCards[e][i].isreusable)
      => /\ CardOf(m).left = 0
         /\ CardOf(s1).assigned_to_user_id = session[e].userId
         /\ Len(LedgerRows(e)) = 1
         /\ LedgerRows(e)[1].inviter_card_id # NULL
         /\ LedgerRows(e)[1].invited_card_id # NULL

\* the remaining uses of the multi-use vouchers of a pool
ReusableUnits(pool) ==
  SumSeq([i \in DOMAIN pool |-> IF pool[i].isreusable THEN pool[i].left ELSE 0])

\* C11: an event assigns a single-use voucher to the referrer only when the
\* multi-use vouchers of the pool it read have together fewer remaining uses
\* than requiredForReferrer (multi-use units, several of one record if it
\* has them, are taken before any single-use voucher).
C11_MultiUseFirst ==
  \A e \in Events :
    (\E k \in DOMAIN writes[e] :
        writes[e][k].to = "inviter" /\ ~writes[e][k].reusable)
      => ReusableUnits(availableCards[e]) < cardsNeededForInviter

\* no two records of giftcard_cards share a card_code
CardCodesUnique ==
  \A i, j \in DOMAIN cards :
    cards[i].card_code = cards[j].card_code => i = j

\* C12: an admin command (.add, .addre) leaves every record that existed
\* with all its fields, every record it inserts is unassigned and carries a
\* code that no other record carries, and in every reachable state no two
\* records share a code.
C12_AddNeverChangesExisting ==
  /\ []CardCodesUnique
  /\ [][issued' # issued =>
          /\ Len(cards') >= Len(cards)
          /\ \A i \in DOMAIN cards : cards'[i] = cards[i]
          /\ \A i \in (Len(cards) + 1)..Len(cards') :
               /\ cards'[i].assigned_to_user_id = NULL
               /\ cards'[i].assigned_timestamp = NULL
               /\ \A j \in DOMAIN cards' :
                    cards'[j].card_code = cards'[i].card_code => j = i]_vars

\* witness of C12: two commands of different kinds have each inserted a
\* record, and the older record has been consumed from since
C12_Witness ==
  /\ issued = 2
  /\ Len(cards) = 2
  /\ cards[1].isreusable # cards[2].isreusable
  /\ \/ cards[1].assigned_to_user_id # NULL
     \/ cards[1].left # created[cards[1].card_code].left

\* the users that occur in join events
Users == {s.userId : s \in Sessions} \cup ({s.operatorId : s \in Sessions} \ {NULL})

\* C13: in every reachable state a multi-use voucher has no owner, so the
\* query of giftcard.me returns single-use vouchers only, for every user.
C13_MultiUseHasNoOwner ==
  /\ \A i \in DOMAIN cards :
       cards[i].isreusable => cards[i].assigned_to_user_id = NULL
  /\ \A u \in Users : \A k \in DOMAIN GetCardsOf(u) :
       ~GetCardsOf(u)[k].isreusable

\* witness of C13: an event has ended rewarded after taking a unit of a
\* multi-use voucher, and that voucher still has no owner
C13_Witness ==
  \E e \in Events : \E k \in DOMAIN writes[e] :
    /\ Done(e)
    /\ outcome[e] = "rewarded"
    /\ writes[e][k].reusable
    /\ CardOf(writes[e][k].code).isreusable
    /\ CardOf(writes[e][k].code).assigned_to_user_id = NULL
    /\ CardOf(writes[e][k].code).left < created[writes[e][k].code].left

\* C14: a join event whose group is not enrolled, or whose referrer is
\* absent or the joining user, ends at once without reading the ledger or
\* the pool, and the step that handles it changes no voucher record and no
\* ledger entry.
C14_IneligibleJoinChangesNothing ==
  /\ [](\A e \in Events :
          (Started(e) /\ ~Referral(e))
            => /\ Done(e)
               /\ outcome[e] \in {"not-enrolled", "direct-join"}
               /\ ~poolRead[e]
               /\ writes[e] = <<>>
               /\ ledgerWrites[e] = 0)
  /\ [][\A e \in Events :
          (/\ pc'[e] # pc[e]
           /\ \/ session'[e].guildId \notin targetGroups
              \/ session'[e].operatorId = NULL
              \/ session'[e].operatorId = session'[e].userId)
            => cards' = cards /\ invites' = invites]_vars

\* witness of C14: a self-invited join has ended while the inventory held
\* enough for a reward, and no voucher was touched
C14_Witness ==
  \E e \in Events :
    /\ Done(e)
    /\ session[e].guildId \in targetGroups
    /\ session[e].operatorId = session[e].userId
    /\ totalCardsNeeded > 0
    /\ Capacity(cards) >= totalCardsNeeded
    /\ \A i \in DOMAIN cards :
         /\ cards[i].assigned_to_user_id = NULL
         /\ cards[i].left = created[cards[i].card_code].left

\* the messages an event has handed to bot.sendPrivateMessage for a recipient
SentTo(e, userId) == {m \in sent : m.ev = e /\ m.to = userId}

UnitsGranted(code) ==
  Cardinality({ek \in Events \X (1..(MaxCardsPerInviter + 1)) :
                 /\ ek[2] \in DOMAIN writes[ek[1]]
                 /\ writes[ek[1]][ek[2]].code = code
                 /\ writes[ek[1]][ek[2]].reusable})

\* no event has taken two units of the same voucher by itself
NoEventTookTwice ==
  \A e \in Events : \A k, l \in DOMAIN writes[e] :
    writes[e][k].code = writes[e][l].code => k = l

\* C16: across the interleavings of concurrent events, for every multi-use
\* voucher the number of units handed out equals the left it was created
\* with minus its current left.  (An event that takes two units of one
\* voucher by itself is the matter of C17 and is set aside here.)
C16_NoDoubleSpending ==
  NoEventTookTwice
    => \A i \in DOMAIN cards :
         cards[i].isreusable
           => UnitsGranted(cards[i].card_code)
                = created[cards[i].card_code].left - cards[i].left

\* the record of a card_code as the event read it from the pool
CardRead(e, code) ==
  availableCards[e][CHOOSE i \in DOMAIN availableCards[e] :
                      availableCards[e][i].card_code = code]

\* the number of units of a voucher the event has handed out
UnitsTaken(e, code) ==
  Cardinality({k \in DOMAIN writes[e] : writes[e][k].code = code})

\* C17: within one event the unit given to the new member is not a unit
\* given to the referrer: a single-use voucher given to the new member was
\* not given to the referrer by this event, and a multi-use voucher the new
\* member got a use of has (no other handler having written meanwhile)
\* dropped by one for every unit this event took from it.
C17_ReferrerAndNewMemberUnitsDistinct ==
  \A e \in Events : \A k \in DOMAIN writes[e] :
    writes[e][k].to = "invited"
      => IF writes[e][k].reusable
         THEN ~interfered[e]
                => CardOf(writes[e][k].code).left
                     = CardRead(e, writes[e][k].code).left
                         - UnitsTaken(e, writes[e][k].code)
         ELSE \A l \in DOMAIN writes[e] :
                writes[e][l].code = writes[e][k].code => l = k

\* the cards the event has selected and is about to write
Selected(e) ==
  IF pc[e] = "setInviter" THEN Range(cardsForInviter(availableCards[e]))
  ELSE IF pc[e] = "setInvited" THEN {availableCards[e][InvitedIndex]}
  ELSE {}

\* C18: no event selects a multi-use voucher whose left was 0 when the event
\* read the pool, and none hands out (decrements or grants) a unit of one.
C18_ExhaustedVoucherNeverSelected ==
  \A e \in Events :
    /\ \A c \in Selected(e) : c.isreusable => c.left > 0
    /\ \A k \in DOMAIN writes[e] :
         writes[e][k].reusable => CardRead(e, writes[e][k].code).left > 0

\* the codes the event has handed to one party, in the order granted
GrantedCodes(e, party) ==
  [k \in DOMAIN Granted(e, party) |-> Granted(e, party)[k].code]

\* C19: an event that has ended rewarded has handed the bot a message to the
\* new member that lists the code it granted to the new member, if it
\* granted one, and a message to the referrer that lists the codes it
\* granted to the referrer, if it granted any.
C19_GrantsAreNotified ==
  \A e \in Events :
    (Done(e) /\ outcome[e] = "rewarded")
      => /\ Granted(e, "invited") # <<>>
              => \E m \in SentTo(e, session[e].userId) :
                   /\ m.role = "invited"
                   /\ m.codes = GrantedCodes(e, "invited")
         /\ Granted(e, "inviter") # <<>>
              => \E m \in SentTo(e, session[e].operatorId) :
                   /\ m.role = "inviter"
                   /\ m.codes = GrantedCodes(e, "inviter")

\* C20: in every reachable state, for every voucher, assigned_timestamp is
\* non-null exactly when assigned_to_user_id is non-null.
C20_AssignedAtIffOwner ==
  \A i \in DOMAIN cards :
    cards[i].assigned_timestamp # NULL <=> cards[i].assigned_to_user_id # NULL

\* witness of C20: one voucher has been assigned and another one has not
C20_Witness ==
  \E i, j \in DOMAIN cards :
    /\ cards[i].assigned_to_user_id # NULL
    /\ cards[i].assigned_timestamp # NULL
    /\ cards[j].assigned_to_user_id = NULL
    /\ cards[j].assigned_timestamp = NULL

\* C21: under fair scheduling every event that has arrived reaches a final
\* outcome, and until it has, a step of its own handler is enabled whatever
\* the other events do (it waits on no other event).
C21_EveryEventTerminates ==
  /\ \A e \in Events : Started(e) ~> Done(e)
  /\ [](\A e \in Events : (Started(e) /\ ~Done(e)) => ENABLED HandlerStep(e))

\* witness of C21: two events that were in flight together, each of which
\* wrote vouchers while the other was running, have both ended
C21_Witness ==
  \A e \in Events :
    /\ Done(e)
    /\ interfered[e]
    /\ writes[e] # <<>>

\* the configuration requires no voucher
NoVoucherRequired ==
  config = [cardsPerInviter |-> 0, rewardInvitedUser |-> FALSE]

\* the ledger holds an entry for the (newMemberId, groupId) of a session
Logged(s) ==
  \E i \in DOMAIN invites :
    invites[i].invited_id = s.userId /\ invites[i].group_id = s.guildId

\* C22: when the configuration requires no voucher, (1) no event reads the
\* pool or writes a voucher, and only admin commands change giftcard_cards;
\* (2) a referral join whose read of the ledger finds no entry for its
\* (newMemberId, groupId) goes on to write one (unless that read rejects),
\* writes at most one, and the entry it writes carries its inviter, its
\* pair and null voucher references; (3) a join event that finds an entry
\* for its pair in the ledger (any event that arrives once the entry is
\* written) ends as already-rewarded (or query-failed) and writes nothing.
C22_NoVoucherConfigWritesLedgerOnce ==
  /\ [](NoVoucherRequired =>
          \A e \in Events :
            /\ ~poolRead[e]
            /\ writes[e] = <<>>
            /\ ledgerWrites[e] <= 1
            /\ (Done(e) /\ Referral(e))
                 => outcome[e] \in {"no-reward-needed", "already-rewarded",
                                    "query-failed", "failed"}
            /\ (Done(e) /\ outcome[e] = "no-reward-needed")
                 => /\ ledgerWrites[e] = 1
                    /\ \E i \in DOMAIN invites :
                         /\ invites[i].inviter_id = session[e].operatorId
                         /\ invites[i].invited_id = session[e].userId
                         /\ invites[i].group_id = session[e].guildId
                         /\ invites[i].inviter_card_id = NULL
                         /\ invites[i].invited_card_id = NULL
            /\ (Done(e) /\ outcome[e] # "no-reward-needed")
                 => ledgerWrites[e] = 0)
  /\ [][NoVoucherRequired =>
          /\ cards' # cards => issued' # issued
          /\ \A e \in Events :
               (pc[e] = "getInvites" /\ pc'[e] # pc[e])
                 => IF Logged(session[e])
                    THEN /\ pc'[e] = "done"
                         /\ outcome'[e] \in {"already-rewarded", "query-failed"}
                         /\ invites' = invites
                         /\ cards' = cards
                    ELSE \/ pc'[e] = "upsertInvite"
                         \/ pc'[e] = "done" /\ outcome'[e] = "query-failed"]_vars

\* witness of C22: with no voucher required and cards in the inventory, one
\* event has written the entry of its pair and a later event of the same
\* pair has ended as already-rewarded; the ledger holds that one entry and
\* no voucher has been touched
C22_Witness ==
  /\ NoVoucherRequired
  /\ cards # <<>>
  /\ Len(invites) = 1
  /\ \E e, f \in Events :
       /\ e # f
       /\ SameJoin(e, f)
       /\ Done(e) /\ outcome[e] = "no-reward-needed"
       /\ Done(f) /\ outcome[f] = "already-rewarded"
       /\ ledgerWrites[e] = 1
       /\ ledgerWrites[f] = 0
       /\ invites[1].inviter_card_id = NULL
       /\ invites[1].invited_card_id = NULL
  /\ \A i \in DOMAIN cards :
       /\ cards[i].assigned_to_user_id = NULL
       /\ cards[i].left = created[cards[i].card_code].left

=============================================================================
